---------------------------- MODULE Spec2Model ----------------------------
(***************************************************************************)
(* A model of cpu_ram_stress.cpp: the main sequence (reserve and fill a    *)
(* block, spawn 2n busy workers, hold, sample memory and CPU, wait for the *)
(* operator, release, detach, exit), the worker threads, the body of       *)
(* print_cpu_usage and the trial-division loop of is_prime.                *)
(*                                                                         *)
(* Program positions are named after the source line that executes next.   *)
(***************************************************************************)
EXTENDS Integers, Sequences, FiniteSets, TLC

(***************************************************************************)
(* Bounds of the model.                                                    *)
(***************************************************************************)
\* bytes of the reserved block (22 GiB in the source, line 97)
SIZE == 2
\* largest value of an indeterminate byte of a freshly allocated block
MaxByte == 2
\* largest value thread::hardware_concurrency() returns
MaxCores == 1
\* iterations of one pass of cpu_stress (100000000 in the source, line 29)
PassLen == 2
\* cpu_stress2 is followed until its counter reaches this value
MaxNum == 3
\* bits of ULONGLONG in print_cpu_usage (64 in the source)
TickWidth == 3
\* largest system-time accumulator GetSystemTimes returns to a sampler run alone
MaxTick == 4
\* bits of unsigned long long in is_prime (64 in the source)
Width == 8

(***************************************************************************)
(* Program constants.                                                      *)
(***************************************************************************)
\* memset(big_array, 1, SIZE)
FillValue == 1
\* unsigned long long num = 2 in cpu_stress2
FirstNum == 2
\* return 1 after a failed allocation
ExitFailure == 1
\* return 0 at the end of main
ExitSuccess == 0
\* the process has not exited yet
NoExit == -1
MB == 1024 * 1024

ULL == 2 ^ TickWidth
UMax == 2 ^ Width

VARIABLES
    pc,           \* position of the main thread
    big_array,    \* "unset", "null", "block" or "dangling" (after delete[])
    block,        \* contents of the reserved block, <<>> when there is none
    num_threads,  \* unsigned int num_threads
    i,            \* loop counter of the two spawn loops
    it,           \* position of the range-for over threads
    threads,      \* vector<thread>: handle states
    workers,      \* the OS threads behind the handles
    hold,         \* Sleep(10000): "not_started", "in_progress", "done"
    memOut,       \* what print_memory_usage printed
    snap1,        \* <<idleTime1, kernelTime1, userTime1>> once read, else <<>>
    snap2,        \* <<idleTime2, kernelTime2, userTime2>> once read, else <<>>
    cpu,          \* <<locals of print_cpu_usage>> after the arithmetic, else <<>>
    cpuOut,       \* what print_cpu_usage printed
    deletes,      \* number of delete[] big_array executed
    exitCode,     \* the process's exit code, NoExit while it runs
    p_pc,         \* position inside is_prime
    p_num,        \* is_prime: num
    p_i,          \* is_prime: i
    p_ret         \* is_prime: returned value

cpuVars == <<snap1, snap2, cpu, cpuOut>>
primeVars == <<p_pc, p_num, p_i, p_ret>>
vars == <<pc, big_array, block, num_threads, i, it, threads, workers, hold,
          memOut, snap1, snap2, cpu, cpuOut, deletes, exitCode,
          p_pc, p_num, p_i, p_ret>>

Bytes == 0..MaxByte
Alive == pc \notin {"exited", "aborted"}

(***************************************************************************)
(* main, lines 93-137                                                      *)
(***************************************************************************)
InitMain ==
    /\ pc = "l100"
    /\ big_array = "unset"
    /\ block = <<>>
    /\ num_threads = 0
    /\ i = 0
    /\ it = 0
    /\ threads = <<>>
    /\ workers = <<>>
    /\ hold = "not_started"
    /\ memOut = [k |-> "none", virt |-> 0, phys |-> 0]
    /\ deletes = 0
    /\ exitCode = NoExit

InitCpu ==
    /\ snap1 = <<>>
    /\ snap2 = <<>>
    /\ cpu = <<>>
    /\ cpuOut = [k |-> "none", n |-> 0, d |-> 1]

InitPrime ==
    /\ p_pc = "idle"
    /\ p_num = 0
    /\ p_i = 0
    /\ p_ret = FALSE

Init == InitMain /\ InitCpu /\ InitPrime

\* line 100: new(nothrow) char[SIZE] returns a block of indeterminate
\* contents, or a null pointer
Allocate ==
    /\ pc = "l100"
    /\ \/ /\ big_array' = "null"
          /\ block' = <<>>
       \/ /\ big_array' = "block"
          /\ \E b \in [1..SIZE -> Bytes] : block' = b
    /\ pc' = "l101"
    /\ UNCHANGED <<num_threads, i, it, threads, workers, hold, memOut,
                   deletes, exitCode, cpuVars, primeVars>>

\* lines 101-104 without the return: a null pointer falls through to memset
CheckAlloc_fallthrough ==
    /\ pc = "l101"
    /\ pc' = "l106"
    /\ UNCHANGED <<big_array, block, num_threads, i, it, threads, workers,
                   hold, memOut, deletes, exitCode, cpuVars, primeVars>>

\* lines 101-104: if (!big_array) return 1
CheckAlloc ==
    /\ pc = "l101"
    /\ IF big_array = "null"
         THEN pc' = "exited" /\ exitCode' = ExitFailure
         ELSE pc' = "l106" /\ exitCode' = exitCode
    /\ UNCHANGED <<big_array, block, num_threads, i, it, threads, workers,
                   hold, memOut, deletes, cpuVars, primeVars>>

\* line 106 with a length one byte short
Memset_short ==
    /\ pc = "l106"
    /\ block' = [b \in 1..SIZE |-> IF b < SIZE THEN FillValue ELSE block[b]]
    /\ pc' = "l107"
    /\ UNCHANGED <<big_array, num_threads, i, it, threads, workers, hold,
                   memOut, deletes, exitCode, cpuVars, primeVars>>

\* line 106: memset(big_array, 1, SIZE)
Memset ==
    /\ pc = "l106"
    /\ block' = [b \in 1..SIZE |-> FillValue]
    /\ pc' = "l107"
    /\ UNCHANGED <<big_array, num_threads, i, it, threads, workers, hold,
                   memOut, deletes, exitCode, cpuVars, primeVars>>

\* lines 107-108: num_threads = thread::hardware_concurrency(), which may
\* return 0; the vector starts empty
HardwareConcurrency ==
    /\ pc = "l107"
    /\ \E n \in 0..MaxCores : num_threads' = n
    /\ i' = 0
    /\ pc' = "l110"
    /\ UNCHANGED <<big_array, block, it, threads, workers, hold, memOut,
                   deletes, exitCode, cpuVars, primeVars>>

\* the process ends: every thread still running ends with it
Killed(ws) ==
    [w \in DOMAIN ws |->
       [ws[w] EXCEPT !.status = IF @ = "running" THEN "killed" ELSE @]]

Handle(fn) == [fn |-> fn, st |-> "joinable"]
Worker(fn) == [fn |-> fn, status |-> "running",
               ctr |-> IF fn = "cpu_stress2" THEN FirstNum ELSE 0]

\* the constructor of std::thread throws std::system_error when the thread
\* cannot be started; nothing catches it, so std::terminate ends the process
SpawnFails ==
    /\ pc' = "aborted"
    /\ workers' = Killed(workers)
    /\ UNCHANGED <<i, threads>>

SpawnOne(fn) ==
    /\ threads' = Append(threads, Handle(fn))
    /\ workers' = Append(workers, Worker(fn))
    /\ i' = i + 1
    /\ pc' = pc

\* lines 110-112: for (i = 0; i < num_threads; ++i) push_back(thread(cpu_stress))
SpawnSqrt ==
    /\ pc = "l110"
    /\ IF i < num_threads
         THEN SpawnOne("cpu_stress") \/ SpawnFails
         ELSE /\ i' = 0
              /\ pc' = "l114"
              /\ UNCHANGED <<threads, workers>>
    /\ UNCHANGED <<big_array, block, num_threads, it, hold, memOut, deletes,
                   exitCode, cpuVars, primeVars>>

\* lines 114-116: for (i = 0; i < num_threads; ++i) push_back(thread(cpu_stress2))
SpawnPrime ==
    /\ pc = "l114"
    /\ IF i < num_threads
         THEN SpawnOne("cpu_stress2") \/ SpawnFails
         ELSE /\ pc' = "l119"
              /\ UNCHANGED <<i, threads, workers>>
    /\ UNCHANGED <<big_array, block, num_threads, it, hold, memOut, deletes,
                   exitCode, cpuVars, primeVars>>

\* lines 118-119: Sleep(10000) is entered
HoldBegin ==
    /\ pc = "l119"
    /\ hold' = "in_progress"
    /\ pc' = "l119_sleeping"
    /\ UNCHANGED <<big_array, block, num_threads, i, it, threads, workers,
                   memOut, deletes, exitCode, cpuVars, primeVars>>

\* line 119: Sleep(10000) returns; lines 121-123 print
HoldEnd ==
    /\ pc = "l119_sleeping"
    /\ hold' = "done"
    /\ pc' = "l124"
    /\ UNCHANGED <<big_array, block, num_threads, i, it, threads, workers,
                   memOut, deletes, exitCode, cpuVars, primeVars>>

(***************************************************************************)
(* print_memory_usage, lines 43-52                                         *)
(***************************************************************************)
\* (PagefileUsage, WorkingSetSize) pairs GetProcessMemoryInfo may report
MemReadings == {<<2 * MB * 3, MB - 1>>, <<MB, 2 * MB - 1>>}

\* line 124 moved before the Sleep(10000) of line 119
PrintMemoryUsage_early ==
    /\ pc = "l119"
    /\ \/ \E pmc \in MemReadings :
            memOut' = [k |-> "ok", virt |-> pmc[1] \div MB,
                       phys |-> pmc[2] \div MB]
       \/ memOut' = [k |-> "error", virt |-> 0, phys |-> 0]
    /\ pc' = "l57"
    /\ UNCHANGED <<big_array, block, num_threads, i, it, threads, workers,
                   hold, deletes, exitCode, cpuVars, primeVars>>

\* line 124: either the two counters are printed in whole megabytes, or the
\* query fails and the error line is printed
PrintMemoryUsage ==
    /\ pc = "l124"
    /\ \/ \E pmc \in MemReadings :
            memOut' = [k |-> "ok", virt |-> pmc[1] \div MB,
                       phys |-> pmc[2] \div MB]
       \/ memOut' = [k |-> "error", virt |-> 0, phys |-> 0]
    /\ pc' = "l57"
    /\ UNCHANGED <<big_array, block, num_threads, i, it, threads, workers,
                   hold, deletes, exitCode, cpuVars, primeVars>>

(***************************************************************************)
(* print_cpu_usage, lines 54-89                                            *)
(*                                                                         *)
(* A double is modelled as an exact rational n/d with d > 0, as +inf or    *)
(* -inf, or as NaN; rounding to 53 bits is not modelled.                   *)
(***************************************************************************)
Fin(n, d) == [k |-> "fin", n |-> n, d |-> d]
PInf == [k |-> "+inf", n |-> 0, d |-> 1]
NInf == [k |-> "-inf", n |-> 0, d |-> 1]
NaN == [k |-> "nan", n |-> 0, d |-> 1]

\* (double)a / (double)b for unsigned a and b, IEEE 754
DDiv(a, b) ==
    IF b # 0 THEN Fin(a, b)
    ELSE IF a = 0 THEN NaN ELSE PInf

\* x * 100.0 for x >= 0
DMul100(x) ==
    IF x.k = "fin" THEN Fin(x.n * 100, x.d) ELSE x

\* 100.0 - x
DSubFrom100(x) ==
    CASE x.k = "fin" -> Fin(100 * x.d - x.n, x.d)
      [] x.k = "+inf" -> NInf
      [] x.k = "-inf" -> PInf
      [] OTHER -> NaN

\* ULONGLONG addition and subtraction
UAdd(a, b) == (a + b) % ULL
USub(a, b) == (a - b) % ULL

\* lines 78-86 without the factor 100.0 on the quotient
CpuLocals_noScale(s1, s2) ==
    LET systemTime1 == UAdd(s1.kernel, s1.user)
        systemTime2 == UAdd(s2.kernel, s2.user)
        systemTimeDelta == USub(systemTime2, systemTime1)
        idleTimeDelta == USub(s2.idle, s1.idle)
    IN  [systemTimeDelta |-> systemTimeDelta,
         idleTimeDelta |-> idleTimeDelta,
         cpuUsage |-> DSubFrom100(DDiv(idleTimeDelta, systemTimeDelta))]

\* lines 78-86 on two snapshots: the locals after the arithmetic
CpuLocals(s1, s2) ==
    LET systemTime1 == UAdd(s1.kernel, s1.user)
        systemTime2 == UAdd(s2.kernel, s2.user)
        systemTimeDelta == USub(systemTime2, systemTime1)
        idleTimeDelta == USub(s2.idle, s1.idle)
    IN  [systemTimeDelta |-> systemTimeDelta,
         idleTimeDelta |-> idleTimeDelta,
         cpuUsage |-> DSubFrom100(DMul100(DDiv(idleTimeDelta, systemTimeDelta)))]

\* what GetSystemTimes can leave in the three FILETIMEs: the accumulators,
\* or, when the call fails (its result is not tested), whatever the
\* uninitialized structures held
Snapshots == [idle : 0..MaxTick, kernel : 0..MaxTick, user : 0..MaxTick]

\* the snapshots offered inside the main sequence, where only the order of
\* the calls matters: each accumulator is 0 or 1
MainSnapshots == [idle : 0..1, kernel : 0..1, user : 0..1]

\* line 57
GetSystemTimes1(S) ==
    /\ pc = "l57"
    /\ \E s \in S : snap1' = <<s>>
    /\ pc' = "l58"
    /\ UNCHANGED <<big_array, block, num_threads, i, it, threads, workers,
                   hold, memOut, deletes, exitCode, snap2, cpu, cpuOut,
                   primeVars>>

\* line 58: Sleep(1000)
SleepSample ==
    /\ pc = "l58"
    /\ pc' = "l59"
    /\ UNCHANGED <<big_array, block, num_threads, i, it, threads, workers,
                   hold, memOut, deletes, exitCode, cpuVars, primeVars>>

\* line 59
GetSystemTimes2(S) ==
    /\ pc = "l59"
    /\ \E s \in S : snap2' = <<s>>
    /\ pc' = "l61"
    /\ UNCHANGED <<big_array, block, num_threads, i, it, threads, workers,
                   hold, memOut, deletes, exitCode, snap1, cpu, cpuOut,
                   primeVars>>

\* lines 61-88: the arithmetic, and the value written to cout
ComputeUsage ==
    /\ pc = "l61"
    /\ cpu' = <<CpuLocals(snap1[1], snap2[1])>>
    /\ cpuOut' = cpu'[1].cpuUsage
    /\ pc' = "l89"
    /\ UNCHANGED <<big_array, block, num_threads, i, it, threads, workers,
                   hold, memOut, deletes, exitCode, snap1, snap2, primeVars>>

\* line 89: print_cpu_usage returns and its locals are gone
ReturnCpu ==
    /\ pc = "l89"
    /\ snap1' = <<>>
    /\ snap2' = <<>>
    /\ cpu' = <<>>
    /\ pc' = "l130"
    /\ UNCHANGED <<big_array, block, num_threads, i, it, threads, workers,
                   hold, memOut, deletes, exitCode, cpuOut, primeVars>>

(***************************************************************************)
(* main, lines 129-136                                                     *)
(***************************************************************************)
\* lines 129-130: cin.get() returns
WaitEnter ==
    /\ pc = "l130"
    /\ pc' = "l132"
    /\ UNCHANGED <<big_array, block, num_threads, i, it, threads, workers,
                   hold, memOut, deletes, exitCode, cpuVars, primeVars>>

\* line 132: delete[] big_array
DeleteBlock ==
    /\ pc = "l132"
    /\ big_array' = "dangling"
    /\ block' = <<>>
    /\ deletes' = deletes + 1
    /\ it' = 0
    /\ pc' = "l133"
    /\ UNCHANGED <<num_threads, i, threads, workers, hold, memOut, exitCode,
                   cpuVars, primeVars>>

\* lines 133-135 with t.join() in place of t.detach(): join returns only
\* when the thread has finished
DetachNext_join ==
    /\ pc = "l133"
    /\ IF it < Len(threads)
         THEN /\ workers[it + 1].status # "running"
              /\ threads' = [threads EXCEPT ![it + 1].st = "joined"]
              /\ it' = it + 1
              /\ pc' = pc
         ELSE /\ pc' = "l136"
              /\ UNCHANGED <<it, threads>>
    /\ UNCHANGED <<big_array, block, num_threads, i, workers, hold, memOut,
                   deletes, exitCode, cpuVars, primeVars>>

\* lines 133-135: for (auto& t : threads) t.detach()
DetachNext ==
    /\ pc = "l133"
    /\ IF it < Len(threads)
         THEN /\ threads' = [threads EXCEPT ![it + 1].st = "detached"]
              /\ it' = it + 1
              /\ pc' = pc
         ELSE /\ pc' = "l136"
              /\ UNCHANGED <<it, threads>>
    /\ UNCHANGED <<big_array, block, num_threads, i, workers, hold, memOut,
                   deletes, exitCode, cpuVars, primeVars>>

\* line 136 with a second delete[] of the block before the return
Return0_doubleDelete ==
    /\ pc = "l136"
    /\ deletes' = deletes + 1
    /\ pc' = "exited"
    /\ exitCode' = ExitSuccess
    /\ workers' = Killed(workers)
    /\ UNCHANGED <<big_array, block, num_threads, i, it, threads, hold,
                   memOut, cpuVars, primeVars>>

\* line 136: return 0. The vector's destructor runs first: destroying a
\* joinable std::thread calls std::terminate. Leaving main ends the
\* process and with it every thread still running.
Return0 ==
    /\ pc = "l136"
    /\ IF \E h \in DOMAIN threads : threads[h].st = "joinable"
         THEN pc' = "aborted" /\ exitCode' = exitCode
         ELSE pc' = "exited" /\ exitCode' = ExitSuccess
    /\ workers' = Killed(workers)
    /\ UNCHANGED <<big_array, block, num_threads, i, it, threads, hold,
                   memOut, deletes, cpuVars, primeVars>>

(***************************************************************************)
(* cpu_stress and cpu_stress2, lines 26-41                                 *)
(***************************************************************************)
workerFrame == <<pc, big_array, block, num_threads, i, it, threads, hold,
                 memOut, deletes, exitCode, cpuVars, primeVars>>

\* lines 27-32: one iteration of the inner loop; the pass restarts after
\* PassLen iterations
SqrtIterate(w) ==
    /\ Alive
    /\ workers[w].fn = "cpu_stress"
    /\ workers[w].status = "running"
    /\ workers' = [workers EXCEPT ![w].ctr = (@ + 1) % PassLen]
    /\ UNCHANGED workerFrame

\* lines 37-40: is_prime(num) is evaluated and dropped, then num++
PrimeIterate(w) ==
    /\ Alive
    /\ workers[w].fn = "cpu_stress2"
    /\ workers[w].status = "running"
    /\ workers[w].ctr < MaxNum
    /\ workers' = [workers EXCEPT ![w].ctr = @ + 1]
    /\ UNCHANGED workerFrame

\* lines 27 and 37: while (true) around a body with no I/O, no volatile
\* access, no atomic and no synchronisation. [intro.progress] lets the
\* implementation assume such a loop ends, so the behaviour is undefined:
\* a build either keeps the loop or drops it and lets the thread function
\* end.
LoopDropped(w) ==
    /\ Alive
    /\ workers[w].status = "running"
    /\ workers' = [workers EXCEPT ![w].status = "returned", ![w].ctr = 0]
    /\ UNCHANGED workerFrame

WorkerStep ==
    \E w \in DOMAIN workers :
        SqrtIterate(w) \/ PrimeIterate(w) \/ LoopDropped(w)

MainStep ==
    \/ Allocate
    \/ CheckAlloc
    \/ Memset
    \/ HardwareConcurrency
    \/ SpawnSqrt
    \/ SpawnPrime
    \/ HoldBegin
    \/ HoldEnd
    \/ PrintMemoryUsage
    \/ GetSystemTimes1(MainSnapshots)
    \/ SleepSample
    \/ GetSystemTimes2(MainSnapshots)
    \/ ComputeUsage
    \/ ReturnCpu
    \/ DeleteBlock
    \/ DetachNext
    \/ Return0

Next == MainStep \/ WaitEnter \/ WorkerStep

Spec == Init /\ [][Next]_vars

\* the main thread is scheduled whenever it can run; the operator's Enter
\* and the workers' progress are not assumed
FairSpec == Spec /\ WF_vars(MainStep)

(***************************************************************************)
(* is_prime, lines 15-24, one step per statement.  unsigned long long      *)
(* arithmetic is arithmetic modulo UMax.                                   *)
(***************************************************************************)
primeFrame == <<pc, big_array, block, num_threads, i, it, threads, workers,
                hold, memOut, deletes, exitCode, cpuVars>>

\* line 16: if (num <= 1) return false
P16 ==
    /\ p_pc = "l16"
    /\ IF p_num <= 1
         THEN p_pc' = "ret" /\ p_ret' = FALSE
         ELSE p_pc' = "l17" /\ p_ret' = p_ret
    /\ UNCHANGED <<p_num, p_i, primeFrame>>

\* line 17: if (num == 2 || num == 3) return true
P17 ==
    /\ p_pc = "l17"
    /\ IF p_num = 2 \/ p_num = 3
         THEN p_pc' = "ret" /\ p_ret' = TRUE
         ELSE p_pc' = "l18" /\ p_ret' = p_ret
    /\ UNCHANGED <<p_num, p_i, primeFrame>>

\* line 18 without the test of divisibility by 3
P18_noThree ==
    /\ p_pc = "l18"
    /\ IF p_num % 2 = 0
         THEN p_pc' = "ret" /\ p_ret' = FALSE /\ p_i' = p_i
         ELSE p_pc' = "l20" /\ p_ret' = p_ret /\ p_i' = 5
    /\ UNCHANGED <<p_num, primeFrame>>

\* line 18: if (num % 2 == 0 || num % 3 == 0) return false; line 20: i = 5
P18 ==
    /\ p_pc = "l18"
    /\ IF p_num % 2 = 0 \/ p_num % 3 = 0
         THEN p_pc' = "ret" /\ p_ret' = FALSE /\ p_i' = p_i
         ELSE p_pc' = "l20" /\ p_ret' = p_ret /\ p_i' = 5
    /\ UNCHANGED <<p_num, primeFrame>>

\* line 20: the loop test i * i <= num; line 23: return true
P20 ==
    /\ p_pc = "l20"
    /\ IF (p_i * p_i) % UMax <= p_num
         THEN p_pc' = "l21" /\ p_ret' = p_ret
         ELSE p_pc' = "ret" /\ p_ret' = TRUE
    /\ UNCHANGED <<p_num, p_i, primeFrame>>

\* line 21: if (num % i == 0 || num % (i + 2) == 0) return false;
\* line 20: i += 6
P21 ==
    /\ p_pc = "l21"
    /\ IF p_num % p_i = 0 \/ p_num % ((p_i + 2) % UMax) = 0
         THEN p_pc' = "ret" /\ p_ret' = FALSE /\ p_i' = p_i
         ELSE p_pc' = "l20" /\ p_ret' = p_ret /\ p_i' = (p_i + 6) % UMax
    /\ UNCHANGED <<p_num, primeFrame>>

NextPrime == P16 \/ P17 \/ P18 \/ P20 \/ P21

\* the main sequence with one worker of each kind started, the block
\* filled and nothing released
Loaded(at, h, m) ==
    /\ pc = at
    /\ big_array = "block"
    /\ block = [b \in 1..SIZE |-> FillValue]
    /\ num_threads = 1
    /\ i = 1
    /\ it = 0
    /\ threads = <<Handle("cpu_stress"), Handle("cpu_stress2")>>
    /\ workers = <<Worker("cpu_stress"), Worker("cpu_stress2")>>
    /\ hold = h
    /\ memOut = [k |-> m, virt |-> 0, phys |-> 0]
    /\ deletes = 0
    /\ exitCode = NoExit

\* is_prime is entered with any argument of its type, while the main
\* sequence holds
InitPrimeCall ==
    /\ Loaded("l119_sleeping", "in_progress", "none")
    /\ InitCpu
    /\ p_pc = "l16"
    /\ p_num \in 0..(UMax - 1)
    /\ p_i = 0
    /\ p_ret = FALSE

SpecPrime == InitPrimeCall /\ [][NextPrime]_vars

\* print_cpu_usage is entered after the hold; here the memory query had failed
InitCpuCall ==
    /\ Loaded("l57", "done", "error")
    /\ InitCpu
    /\ InitPrime

NextCpu ==
    \/ GetSystemTimes1(Snapshots)
    \/ SleepSample
    \/ GetSystemTimes2(Snapshots)
    \/ ComputeUsage
    \/ ReturnCpu

SpecCpu == InitCpuCall /\ [][NextCpu]_vars

(***************************************************************************)
(* Properties                                                              *)
(***************************************************************************)
NoSample ==
    /\ memOut.k = "none"
    /\ Len(snap1) = 0
    /\ Len(snap2) = 0
    /\ cpuOut.k = "none"

Measuring == pc \in {"l124", "l57", "l58", "l59", "l61", "l89"}

Filled == \A b \in 1..SIZE : block[b] = FillValue

AllocFailureState ==
    big_array = "null" =>
        /\ pc \in {"l101", "exited"}
        /\ pc = "exited" => exitCode = ExitFailure
        /\ Len(threads) = 0
        /\ Len(workers) = 0
        /\ hold = "not_started"
        /\ NoSample

\* C1: when the allocator returns no block, the main sequence's next step
\* exits with code 1, and in that execution no worker is started, the hold
\* is never entered and no sample is taken.
C1_AllocFailure ==
    /\ []AllocFailureState
    /\ [][big_array = "null" /\ pc = "l101"
            => pc' = "exited" /\ exitCode' = ExitFailure]_vars

C1_Witness ==
    /\ big_array = "null"
    /\ pc = "exited"
    /\ exitCode = ExitFailure

\* C2: the memory sample and both CPU-time snapshots exist only once the
\* hold has completed, and the hold is entered only with all 2n workers
\* spawned and both spawn loops left.
C2_SampleAfterHold ==
    /\ ~NoSample => hold = "done"
    /\ hold # "not_started" =>
          /\ Len(threads) = 2 * num_threads
          /\ pc \notin {"l100", "l101", "l106", "l107", "l110", "l114", "l119"}

C2_Witness ==
    /\ pc = "l61"
    /\ Len(snap1) = 1
    /\ Len(snap2) = 1
    /\ memOut.k = "ok"
    /\ hold = "done"
    /\ Len(threads) = 2

\* C3: once a worker exists or a sample has been taken, and until the block
\* is released, every byte of the block holds the fill value; the fill is
\* complete before the first worker starts, and worker steps taken in
\* between leave it so.
C3_BlockFilled ==
    /\ (big_array = "block" /\ pc \notin {"l101", "l106"}) => Filled
    /\ (Len(threads) > 0 \/ ~NoSample) => pc \notin {"l100", "l101", "l106"}
    /\ Measuring => big_array = "block" /\ Filled

C3_Witness ==
    /\ pc = "l89"
    /\ Filled
    /\ Len(workers) = 2
    /\ \E w \in DOMAIN workers : workers[w].ctr # Worker(workers[w].fn).ctr

CountOf(fn) == Cardinality({h \in DOMAIN threads : threads[h].fn = fn})

C5_ReleaseOnce ==
    /\ deletes <= 1
    /\ deletes = 1 =>
          /\ memOut.k # "none"
          /\ cpuOut.k # "none"
          /\ pc \in {"l133", "l136", "exited"}
          /\ big_array = "dangling"
    /\ (pc = "exited" /\ exitCode = ExitSuccess) => deletes = 1
    /\ Measuring => deletes = 0 /\ big_array = "block"

C5_Witness ==
    /\ pc = "exited"
    /\ exitCode = ExitSuccess
    /\ deletes = 1
    /\ cpuOut.k # "none"

AllDetached == \A h \in DOMAIN threads : threads[h].st = "detached"

\* C6: once cin.get() has returned, the main sequence reaches exit with
\* code 0 whatever the workers do; it exits with every handle detached and
\* no handle is ever joined.
C6_ExitAfterAck ==
    /\ (pc = "l132") ~> (pc = "exited" /\ exitCode = ExitSuccess)
    /\ [](pc = "exited" /\ exitCode = ExitSuccess => AllDetached)
    /\ [](\A h \in DOMAIN threads : threads[h].st # "joined")
    /\ [](pc \in {"l132", "l133", "l136"} => exitCode = NoExit)

C6_Witness ==
    /\ pc = "exited"
    /\ exitCode = ExitSuccess
    /\ Len(threads) = 2
    /\ AllDetached
    /\ \A w \in DOMAIN workers : workers[w].status = "killed"

\* C7: when systemTimeDelta is 0 the sampler reports NoMeasurableInterval
\* and no number.
C7_NoMeasurableInterval ==
    (pc = "l89" /\ cpu[1].systemTimeDelta = 0) =>
        cpuOut.k = "NoMeasurableInterval"

PrimeTable == {2, 3, 5, 7, 11, 13, 17, 19, 23, 29, 31, 37, 41, 43, 47, 53,
               59, 61, 67, 71, 73, 79, 83, 89, 97}

\* C8: for every n in 0..100, is_prime(n) returns true exactly when n is in
\* the table of the primes up to 100.
C8_PrimeTable ==
    (p_pc = "ret" /\ p_num <= 100) => (p_ret <=> p_num \in PrimeTable)

C8_Witness ==
    /\ p_pc = "ret"
    /\ p_num = 97
    /\ p_ret = TRUE
    /\ p_i = 11

\* the claim's deltas, in the ULONGLONG arithmetic of lines 78-84
SystemDelta ==
    ((snap2[1].kernel + snap2[1].user) - (snap1[1].kernel + snap1[1].user)) % ULL
IdleDelta == (snap2[1].idle - snap1[1].idle) % ULL

NonDecreasing ==
    /\ snap1[1].idle <= snap2[1].idle
    /\ snap1[1].kernel <= snap2[1].kernel
    /\ snap1[1].user <= snap2[1].user

\* C9: for non-decreasing snapshots with systemDelta > 0 the reported value
\* n/d is a number equal to 100 * (1 - idleDelta / systemDelta); it is 100
\* when idleDelta = 0, 0 when idleDelta = systemDelta, and within [0, 100]
\* whenever idleDelta <= systemDelta.
C9_Utilization ==
    (pc = "l89" /\ NonDecreasing /\ SystemDelta > 0) =>
        /\ cpuOut.k = "fin"
        /\ cpuOut.d > 0
        /\ cpuOut.n * SystemDelta = 100 * (SystemDelta - IdleDelta) * cpuOut.d
        /\ IdleDelta = 0 => cpuOut.n = 100 * cpuOut.d
        /\ IdleDelta = SystemDelta => cpuOut.n = 0
        /\ IdleDelta <= SystemDelta =>
              0 <= cpuOut.n /\ cpuOut.n <= 100 * cpuOut.d

C9_Witness ==
    /\ pc = "l89"
    /\ NonDecreasing
    /\ SystemDelta = 4
    /\ IdleDelta = 1
    /\ cpuOut.k = "fin"
    /\ cpuOut.n * 4 = 300 * cpuOut.d
    /\ snap2[1].kernel + snap2[1].user >= ULL

IsPrimeMath(n) == n > 1 /\ \A d \in 2..(n - 1) : n % d # 0

\* C10: every candidate divisor i the loop tries satisfies i * i <= n, and
\* the value returned is true exactly when n is prime, for every n of the
\* machine width.
C10_TrialDivisionBound ==
    /\ p_pc = "l21" => p_i * p_i <= p_num
    /\ p_pc = "ret" => (p_ret <=> IsPrimeMath(p_num))
=============================================================================
